---- MODULE Spec2Model ----
(***************************************************************************)
(* Model of the Raydium CLMM swap helper (app/lib/raydium.ts):             *)
(*   - the amount conversions uiAmountToBN / formatTokenAmount,            *)
(*   - the pool account validation assertClmmPoolAccount,                  *)
(*   - the swap pipeline performClmmSwap with ensureAtaExists,             *)
(*   - the signing capability of createRaydiumContext,                     *)
(* and of the hook useClmmSwap (app/features/clmm/useClmmSwap.ts):         *)
(*   - the pool snapshot effect,                                           *)
(*   - the form, its handlers and the swap calls they start.               *)
(* Strings are sequences of one-character strings.                         *)
(***************************************************************************)
EXTENDS Integers, Sequences, FiniteSets, TLC

(***************************************************************************)
(* Bounds of the model.                                                    *)
(***************************************************************************)
MaxLen == 4
MaxDec == 3
MaxAmount == 1100

VARIABLES cvPhase, cvOrigin, cvStr, cvDec, cvAmt, cvBN

VARIABLES endpoint, poolAccount, ataExists, pc, req, calls, ataFor, ataTxs,
          amountIn, computation, result, failedAt, swapResult

VARIABLES sgPc, sgWallet, sgTxs, sgMode, sgIdx, sgSigned, sgCalls

VARIABLES snAddr, snConn, poolSnapshot, snapshotLoading, snapshotError,
          fetches, snGen, snLast

VARIABLES form, hkWallet, status, statusMessage, lastSwap,
          hkCalls, hkStarted, hkLast, hkResolved

VARIABLES enWallet, enPc, enMint, enAta, enPending

cvVars == <<cvPhase, cvOrigin, cvStr, cvDec, cvAmt, cvBN>>

sgVars == <<sgPc, sgWallet, sgTxs, sgMode, sgIdx, sgSigned, sgCalls>>

\* The variables outside the conversions and the swap pipeline.
snVars == <<snAddr, snConn, poolSnapshot, snapshotLoading, snapshotError,
            fetches, snGen, snLast>>

hkVars == <<form, hkWallet, status, statusMessage, lastSwap,
            hkCalls, hkStarted, hkLast, hkResolved>>

enVars == <<enWallet, enPc, enMint, enAta, enPending>>

extVars == <<sgVars, snVars, hkVars, enVars>>

chainVars == <<endpoint, poolAccount>>

swapVars == <<endpoint, poolAccount, ataExists, pc, req, calls, ataFor, ataTxs,
              amountIn, computation, result, failedAt, swapResult>>

vars == <<cvPhase, cvOrigin, cvStr, cvDec, cvAmt, cvBN,
          endpoint, poolAccount, ataExists, pc, req, calls, ataFor, ataTxs,
          amountIn, computation, result, failedAt, swapResult, extVars>>

(***************************************************************************)
(* JavaScript string helpers used by the conversions.                      *)
(***************************************************************************)
DigitChars == <<"0", "1", "2", "3", "4", "5", "6", "7", "8", "9">>

Digits == {DigitChars[i] : i \in 1..10}

IsDigit(c) == c \in Digits

DigitVal(c) == (CHOOSE i \in 1..10 : DigitChars[i] = c) - 1

AllDigits(s) == \A i \in 1..Len(s) : IsDigit(s[i])

\* The characters typed amounts are drawn from.
InChars == {"0", "1", "9", ".", "-", " "}

RECURSIVE StrsUpTo(_)
StrsUpTo(n) ==
    IF n = 0 THEN {<<>>}
    ELSE LET shorter == StrsUpTo(n - 1)
         IN shorter \cup {Append(s, c) : s \in {t \in shorter : Len(t) = n - 1}, c \in InChars}

RECURSIVE Pow10(_)
Pow10(k) == IF k = 0 THEN 1 ELSE 10 * Pow10(k - 1)

\* Number of leading characters of s that satisfy being equal to c.
RECURSIVE LeadingCount(_, _)
LeadingCount(s, c) ==
    IF s = <<>> \/ Head(s) # c THEN 0 ELSE 1 + LeadingCount(Tail(s), c)

RECURSIVE TrailingCount(_, _)
TrailingCount(s, c) ==
    IF s = <<>> \/ s[Len(s)] # c THEN 0
    ELSE 1 + TrailingCount(SubSeq(s, 1, Len(s) - 1), c)

DropFirst(s, k) == SubSeq(s, k + 1, Len(s))

DropLast(s, k) == SubSeq(s, 1, Len(s) - k)

\* String.prototype.trim
Trim(s) == DropLast(DropFirst(s, LeadingCount(s, " ")), TrailingCount(DropFirst(s, LeadingCount(s, " ")), " "))

\* String.prototype.startsWith for a one-character prefix
StartsWith(s, c) == s # <<>> /\ Head(s) = c

\* Index of the first occurrence of c in s, 0 when absent.
IndexOf(s, c) ==
    IF \E i \in 1..Len(s) : s[i] = c
    THEN CHOOSE i \in 1..Len(s) : s[i] = c /\ \A j \in 1..(i - 1) : s[j] # c
    ELSE 0

\* s.split(".")[0]
SplitWhole(s) ==
    IF IndexOf(s, ".") = 0 THEN s ELSE SubSeq(s, 1, IndexOf(s, ".") - 1)

\* s.split(".")[1] with the destructuring default "" when there is no "."
SplitFraction(s) ==
    IF IndexOf(s, ".") = 0 THEN <<>>
    ELSE LET rest == DropFirst(s, IndexOf(s, "."))
         IN SplitWhole(rest)

RECURSIVE Zeros(_)
Zeros(k) == IF k <= 0 THEN <<>> ELSE <<"0">> \o Zeros(k - 1)

\* String.prototype.padStart(len, "0")
PadStart(s, len) == Zeros(len - Len(s)) \o s

\* String.prototype.padEnd(len, "0")
PadEnd(s, len) == s \o Zeros(len - Len(s))

\* A substring that forgets to cut: the whole string.
SubstringUncut(s, k) == s

\* String.prototype.substring(0, k)
Substring0(s, k) == SubSeq(s, 1, IF k < Len(s) THEN k ELSE Len(s))

\* whole.replace(/^0+(?=\d)/, ""): the longest run of leading zeros that is
\* followed by a digit is removed.
StripZerosBeforeDigit(s) ==
    LET k == LeadingCount(s, "0")
    IN IF k = 0 THEN s
       ELSE IF k < Len(s) /\ IsDigit(s[k + 1]) THEN DropFirst(s, k)
       ELSE DropFirst(s, k - 1)

\* combined.replace(/^0+/, "")
StripLeadingZeros(s) == DropFirst(s, LeadingCount(s, "0"))

\* fraction.replace(/0+$/, "")
StripTrailingZeros(s) == DropLast(s, TrailingCount(s, "0"))

\* x || "0" on strings
OrZero(s) == IF s = <<>> THEN <<"0">> ELSE s

RECURSIVE ParseDigits(_)
ParseDigits(s) ==
    IF s = <<>> THEN 0
    ELSE ParseDigits(SubSeq(s, 1, Len(s) - 1)) * 10 + DigitVal(s[Len(s)])

RECURSIVE NatToString(_)
NatToString(n) ==
    IF n < 10 THEN <<DigitChars[n + 1]>>
    ELSE NatToString(n \div 10) \o <<DigitChars[(n % 10) + 1]>>

(***************************************************************************)
(* bn.js values: sign flag and magnitude; a construction that meets a      *)
(* character that is no digit raises "Invalid character".                  *)
(***************************************************************************)
BNOf(n) == [kind |-> "bn", negative |-> 0, mag |-> n]

BNThrow == [kind |-> "throw", negative |-> 0, mag |-> 0]

RemoveSpaces(s) == SelectSeq(s, LAMBDA c : c # " ")

\* new BN(str): whitespace is removed, a leading "-" sets the sign,
\* the rest is parsed in base 10; zero never keeps a sign once parsed.
BNFromString(str) ==
    LET number == RemoveSpaces(str)
        neg == StartsWith(number, "-")
        body == IF neg THEN Tail(number) ELSE number
    IN IF ~AllDigits(body) THEN BNThrow
       ELSE IF body = <<>> THEN [kind |-> "bn", negative |-> (IF neg THEN 1 ELSE 0), mag |-> 0]
       ELSE [kind |-> "bn",
             negative |-> (IF neg /\ ParseDigits(body) # 0 THEN 1 ELSE 0),
             mag |-> ParseDigits(body)]

\* BN.prototype.toString()
BNToString(b) ==
    IF b.negative = 1 THEN <<"-">> \o NatToString(b.mag) ELSE NatToString(b.mag)

\* A lone "-" leaves the number without words: it is neither zero nor
\* positive, and its sign flag is set.
isZero(b) == b.kind = "bn" /\ b.mag = 0 /\ b.negative = 0

isNeg(b) == b.kind = "bn" /\ b.negative = 1

\* uiAmountToBN without the right padding of the fraction.
uiAmountToBNUnpadded(input, decimals) ==
    LET sanitized == Trim(input)
        whole == SplitWhole(sanitized)
        fraction == SplitFraction(sanitized)
        wholeDigits == OrZero(StripZerosBeforeDigit(whole))
        fractionDigits == Substring0(fraction, decimals)
        combined == OrZero(StripLeadingZeros(wholeDigits \o fractionDigits))
    IN IF sanitized = <<>> THEN BNOf(0)
       ELSE IF StartsWith(sanitized, "-") THEN BNOf(0)
       ELSE BNFromString(combined)

(***************************************************************************)
(* uiAmountToBN(input, decimals)                                           *)
(***************************************************************************)
uiAmountToBN(input, decimals) ==
    LET sanitized == Trim(input)
        whole == SplitWhole(sanitized)
        fraction == SplitFraction(sanitized)
        wholeDigits == OrZero(StripZerosBeforeDigit(whole))
        fractionDigits == PadEnd(Substring0(fraction, decimals), decimals)
        combined == OrZero(StripLeadingZeros(wholeDigits \o fractionDigits))
    IN IF sanitized = <<>> THEN BNOf(0)
       ELSE IF StartsWith(sanitized, "-") THEN BNOf(0)
       ELSE BNFromString(combined)

\* formatTokenAmount that keeps the trailing zeros of the fraction.
formatTokenAmountUnstripped(amount, decimals) ==
    LET raw == PadStart(BNToString(amount), decimals + 1)
        whole == OrZero(DropLast(raw, decimals))
        fraction == DropFirst(raw, Len(raw) - decimals)
    IN IF decimals = 0 THEN BNToString(amount)
       ELSE IF fraction # <<>> THEN whole \o <<".">> \o fraction
       ELSE whole

(***************************************************************************)
(* formatTokenAmount(amount, decimals)                                     *)
(***************************************************************************)
formatTokenAmount(amount, decimals) ==
    LET raw == PadStart(BNToString(amount), decimals + 1)
        whole == OrZero(DropLast(raw, decimals))
        fraction == StripTrailingZeros(DropFirst(raw, Len(raw) - decimals))
    IN IF decimals = 0 THEN BNToString(amount)
       ELSE IF fraction # <<>> THEN whole \o <<".">> \o fraction
       ELSE whole

(***************************************************************************)
(* Conversion harness: the inputs are drawn at Init, the steps apply the   *)
(* two functions; a formatted string is fed back to uiAmountToBN.          *)
(***************************************************************************)
InitConvInputs ==
    /\ cvDec \in 0..MaxDec
    /\ cvBN = BNOf(0)
    /\ \/ /\ cvPhase = "str"
          /\ cvOrigin = "typed"
          /\ cvStr \in StrsUpTo(MaxLen)
          /\ cvAmt = 0
       \/ /\ cvPhase = "amt"
          /\ cvOrigin = "formatted"
          /\ cvStr = <<>>
          /\ cvAmt \in 0..MaxAmount

ToDecimalString ==
    /\ cvPhase = "amt"
    /\ cvStr' = formatTokenAmount(BNOf(cvAmt), cvDec)
    /\ cvPhase' = "str"
    /\ UNCHANGED <<cvOrigin, cvDec, cvAmt, cvBN>>
    /\ UNCHANGED swapVars
    /\ UNCHANGED extVars

ToBaseUnits ==
    /\ cvPhase = "str"
    /\ cvBN' = uiAmountToBN(cvStr, cvDec)
    /\ cvPhase' = "bn"
    /\ UNCHANGED <<cvOrigin, cvStr, cvDec, cvAmt>>
    /\ UNCHANGED swapVars
    /\ UNCHANGED extVars


NextConv == ToDecimalString \/ ToBaseUnits

(***************************************************************************)
(* The chain, the wallet and the request parameters of performClmmSwap.    *)
(***************************************************************************)
CLMM_PROGRAM_ID == "CLMM_PROGRAM_ID"

DEVNET_CLMM_PROGRAM_ID == "DEVNET_CLMM_PROGRAM_ID"

AMM_PROGRAM_ID == "AMM_PROGRAM_ID"

CLMM_POOL_ACCOUNT_SIZE == 1544

DEFAULT_CLUSTER == "devnet"

\* An RPC endpoint is described by the substrings endpoint.includes() looks for.
Endpoints ==
    { [devnet |-> TRUE, mainnet |-> FALSE, solanaCom |-> TRUE],
      [devnet |-> FALSE, mainnet |-> TRUE, solanaCom |-> TRUE],
      [devnet |-> FALSE, mainnet |-> FALSE, solanaCom |-> FALSE] }

detectCluster(ep) ==
    IF ep.devnet THEN "devnet"
    ELSE IF ep.mainnet \/ ep.solanaCom THEN "mainnet"
    ELSE IF DEFAULT_CLUSTER = "devnet" THEN "devnet" ELSE "mainnet"

NoAccount == [exists |-> FALSE, owner |-> "none", len |-> 0]

AccountInfos ==
    {NoAccount} \cup
    [exists : {TRUE},
     owner : {CLMM_PROGRAM_ID, DEVNET_CLMM_PROGRAM_ID, AMM_PROGRAM_ID},
     len : {CLMM_POOL_ACCOUNT_SIZE - 1, CLMM_POOL_ACCOUNT_SIZE}]

\* new PublicKey(value) throws on a string that is no base58 key.
NotBase58 == "not-base58"

ValidKey(a) == a # NotBase58

PoolAddrs == {"POOL", NotBase58}

Mints == {"WSOL", "USDC", "OTHER"}

MintAddrs == Mints \cup {NotBase58}

\* poolInfo.mintA / poolInfo.mintB of the pool behind "POOL".
PoolMintA == [address |-> "WSOL", decimals |-> 9, symbol |-> "WSOL"]

PoolMintB == [address |-> "USDC", decimals |-> 6, symbol |-> "USDC"]

NullMint == [address |-> "null", decimals |-> 0, symbol |-> "null"]

Wallets ==
    { w \in [publicKey : BOOLEAN, sendTransaction : BOOLEAN,
             signAllTransactions : BOOLEAN, signTransaction : BOOLEAN] :
        /\ ~w.publicKey => (w.sendTransaction /\ w.signAllTransactions /\ w.signTransaction)
        /\ ~w.sendTransaction => (w.signAllTransactions /\ w.signTransaction) }

AmountInputs ==
    { <<>>,
      <<"0">>,
      <<"-", "1">>,
      <<"0", "-", "1">>,
      <<"0", ".", "0", "5">>,
      <<"0", ".", "0", "0", "0", "0", "0", "0", "1">>,
      <<"1", "x">> }

\* minAmountOut.amount values the pool-math oracle may answer with.
OracleOuts == {7, 1500000}

DefaultAmount == <<"0", ".", "0", "5">>

\* The requests performClmmSwap is called with.  Parameters the code never
\* reads, because an earlier parameter already made it throw before its
\* first await, are left at their defaults.
Requests ==
    { r \in [wallet : Wallets, poolId : PoolAddrs, tokenInMint : MintAddrs,
             tokenOutMint : MintAddrs, amount : AmountInputs] :
        /\ (~r.wallet.publicKey \/ ~r.wallet.sendTransaction) =>
              (r.tokenInMint = "WSOL" /\ r.tokenOutMint = "USDC" /\ r.poolId = "POOL")
        /\ ~ValidKey(r.tokenInMint) => (r.tokenOutMint = "USDC" /\ r.poolId = "POOL")
        /\ ~ValidKey(r.tokenOutMint) => r.poolId = "POOL"
        /\ (\/ ~r.wallet.publicKey
            \/ ~r.wallet.sendTransaction
            \/ ~ValidKey(r.tokenInMint)
            \/ ~ValidKey(r.tokenOutMint)
            \/ ~ValidKey(r.poolId)) => r.amount = DefaultAmount }

IdleWallet == [publicKey |-> FALSE, sendTransaction |-> TRUE,
               signAllTransactions |-> TRUE, signTransaction |-> TRUE]

IdleReq == [wallet |-> IdleWallet, poolId |-> NotBase58, tokenInMint |-> NotBase58,
            tokenOutMint |-> NotBase58, amount |-> <<>>]

NoComputation == [allTrade |-> FALSE, minAmountOut |-> 0]

NoSwapResult == [txId |-> "none", amountOut |-> 0, amountOutUi |-> <<>>,
                 outputMint |-> "none", outputSymbol |-> "none"]

(***************************************************************************)
(* assertClmmPoolAccount: the checks applied to the fetched account info.  *)
(***************************************************************************)
isClmmProgram(info) ==
    \/ info.owner = CLMM_PROGRAM_ID
    \/ info.owner = DEVNET_CLMM_PROGRAM_ID

\* assertClmmPoolAccount with the size check ahead of the owner check.
assertClmmPoolAccountSizeFirst(poolId, info) ==
    IF ~ValidKey(poolId) THEN "InvalidAddress"
    ELSE IF ~info.exists THEN "PoolNotFound"
    ELSE IF info.len < CLMM_POOL_ACCOUNT_SIZE THEN "MalformedAccount"
    ELSE IF ~isClmmProgram(info) THEN "WrongProgramOwner"
    ELSE "ok"

assertClmmPoolAccount(poolId, info) ==
    IF ~ValidKey(poolId) THEN "InvalidAddress"
    ELSE IF ~info.exists THEN "PoolNotFound"
    ELSE IF ~isClmmProgram(info) THEN "WrongProgramOwner"
    ELSE IF info.len < CLMM_POOL_ACCOUNT_SIZE THEN "MalformedAccount"
    ELSE "ok"

\* resolveSignAllTransactions that looks for signTransaction first.
resolveSignOneFirst(wallet) ==
    IF wallet.signTransaction THEN "signEach"
    ELSE IF wallet.signAllTransactions THEN "signAll"
    ELSE "throw"

(***************************************************************************)
(* resolveSignAllTransactions                                              *)
(***************************************************************************)
resolveSignAllTransactions(wallet) ==
    IF wallet.signAllTransactions THEN "signAll"
    ELSE IF wallet.signTransaction THEN "signEach"
    ELSE "throw"

\* The mint info lookup of performClmmSwap for one side of the swap.
MintInfoFor(mint) ==
    IF PoolMintA.address = mint THEN PoolMintA
    ELSE IF PoolMintB.address = mint THEN PoolMintB
    ELSE NullMint

(***************************************************************************)
(* performClmmSwap: one action per stretch of code between two awaits.     *)
(* calls collects what the running request has issued to its               *)
(* collaborators; ataTxs lists the mints whose creation transaction it     *)
(* has submitted.                                                          *)
(***************************************************************************)
InitSwap ==
    /\ endpoint \in Endpoints
    /\ poolAccount \in AccountInfos
    /\ ataExists \in SUBSET Mints
    /\ pc = "idle"
    /\ req = IdleReq
    /\ calls = {}
    /\ ataFor = "in"
    /\ ataTxs = <<>>
    /\ amountIn = BNOf(0)
    /\ computation = NoComputation
    /\ result = "none"
    /\ failedAt = "none"
    /\ swapResult = NoSwapResult

ConvOff ==
    /\ cvPhase = "off"
    /\ cvOrigin = "none"
    /\ cvStr = <<>>
    /\ cvDec = 0
    /\ cvAmt = 0
    /\ cvBN = BNOf(0)

SwapOff ==
    /\ endpoint \in {e \in Endpoints : e.devnet}
    /\ poolAccount = NoAccount
    /\ ataExists = {}
    /\ pc = "idle"
    /\ req = IdleReq
    /\ calls = {}
    /\ ataFor = "in"
    /\ ataTxs = <<>>
    /\ amountIn = BNOf(0)
    /\ computation = NoComputation
    /\ result = "none"
    /\ failedAt = "none"
    /\ swapResult = NoSwapResult

\* throw: the promise of performClmmSwap rejects with an error of this kind.
Throw(kind) ==
    /\ pc' = "done"
    /\ result' = kind
    /\ failedAt' = pc

\* Start without the wallet checks of lines 148-153: the missing public key
\* is only noticed by createRaydiumContext, after the pool account lookup.
StartWalletUnchecked(wallet, poolId, tokenInMint, tokenOutMint, amount) ==
    /\ pc = "idle"
    /\ req' = [wallet |-> wallet, poolId |-> poolId, tokenInMint |-> tokenInMint,
               tokenOutMint |-> tokenOutMint, amount |-> amount]
    /\ ataFor' = "in"
    /\ ataTxs' = <<>>
    /\ amountIn' = BNOf(0)
    /\ computation' = NoComputation
    /\ swapResult' = NoSwapResult
    /\ IF ~ValidKey(tokenInMint) \/ ~ValidKey(tokenOutMint)
       THEN Throw("InvalidAddress") /\ calls' = {}
       ELSE IF assertClmmPoolAccount(poolId, NoAccount) = "InvalidAddress"
       THEN Throw("InvalidAddress") /\ calls' = {}
       ELSE /\ pc' = "poolInfoWait"
            /\ result' = "none"
            /\ failedAt' = "none"
            /\ calls' = {"getAccountInfo:pool"}
    /\ UNCHANGED <<endpoint, poolAccount, ataExists>>
    /\ UNCHANGED cvVars
    /\ UNCHANGED extVars

\* Lines 144-158 and 366-367: wallet checks, key parsing, pool info request.
Start(wallet, poolId, tokenInMint, tokenOutMint, amount) ==
    /\ pc = "idle"
    /\ req' = [wallet |-> wallet, poolId |-> poolId, tokenInMint |-> tokenInMint,
               tokenOutMint |-> tokenOutMint, amount |-> amount]
    /\ ataFor' = "in"
    /\ ataTxs' = <<>>
    /\ amountIn' = BNOf(0)
    /\ computation' = NoComputation
    /\ swapResult' = NoSwapResult
    /\ IF ~wallet.publicKey
       THEN Throw("WalletNotConnected") /\ calls' = {}
       ELSE IF ~wallet.sendTransaction
       THEN Throw("WalletNoSendTransaction") /\ calls' = {}
       ELSE IF ~ValidKey(tokenInMint) \/ ~ValidKey(tokenOutMint)
       THEN Throw("InvalidAddress") /\ calls' = {}
       ELSE IF assertClmmPoolAccount(poolId, NoAccount) = "InvalidAddress"
       THEN Throw("InvalidAddress") /\ calls' = {}
       ELSE /\ pc' = "poolInfoWait"
            /\ result' = "none"
            /\ failedAt' = "none"
            /\ calls' = {"getAccountInfo:pool"}
    /\ UNCHANGED <<endpoint, poolAccount, ataExists>>
    /\ UNCHANGED cvVars
    /\ UNCHANGED extVars

\* Lines 367-387 and 159, 260-277: the pool account info arrives, is checked,
\* and the Raydium context is requested.
PoolAccountInfoReturns ==
    /\ pc = "poolInfoWait"
    /\ \/ Throw("TransportError") /\ UNCHANGED calls
       \/ IF assertClmmPoolAccount(req.poolId, poolAccount) # "ok"
          THEN Throw(assertClmmPoolAccount(req.poolId, poolAccount)) /\ UNCHANGED calls
          ELSE IF ~req.wallet.publicKey
          THEN Throw("WalletNotConnected") /\ UNCHANGED calls
          ELSE IF resolveSignAllTransactions(req.wallet) = "throw"
          THEN Throw("WalletCannotSign") /\ UNCHANGED calls
          ELSE /\ pc' = "loadWait"
               /\ calls' = calls \cup {"Raydium.load"}
               /\ UNCHANGED <<result, failedAt>>
    /\ UNCHANGED <<endpoint, poolAccount, ataExists, req, ataFor, ataTxs,
                   amountIn, computation, swapResult>>
    /\ UNCHANGED cvVars
    /\ UNCHANGED extVars

\* The mint whose associated account the running ensureAtaExists is about.
CurMint == IF ataFor = "in" THEN req.tokenInMint ELSE req.tokenOutMint

\* Lines 159-161, 310-317: the context is loaded, ensureAtaExists(inputMint)
\* starts and queries the associated account.
RaydiumLoadReturns ==
    /\ pc = "loadWait"
    /\ \/ Throw("TransportError") /\ UNCHANGED <<calls, ataFor>>
       \/ /\ pc' = "ataQueryWait"
          /\ ataFor' = "in"
          /\ calls' = calls \cup {"getAccountInfo:ata"}
          /\ UNCHANGED <<result, failedAt>>
    /\ UNCHANGED <<endpoint, poolAccount, ataExists, req, ataTxs,
                   amountIn, computation, swapResult>>
    /\ UNCHANGED cvVars
    /\ UNCHANGED extVars

\* ensureAtaExists returned its address: the next ensureAtaExists starts
\* (line 162) or the wallet token accounts are fetched (line 164).
AfterEnsure ==
    IF ataFor = "in"
    THEN /\ ataFor' = "out"
         /\ pc' = "ataQueryWait"
         /\ calls' = calls \cup {"getAccountInfo:ata"}
    ELSE /\ ataFor' = ataFor
         /\ pc' = "walletAccountsWait"
         /\ calls' = calls \cup {"fetchWalletTokenAccounts"}

\* Lines 317-337: the existence query answers.
AtaInfoReturns ==
    /\ pc = "ataQueryWait"
    /\ \/ Throw("TransportError") /\ UNCHANGED <<calls, ataFor>>
       \/ /\ CurMint \in ataExists
          /\ AfterEnsure
          /\ UNCHANGED <<result, failedAt>>
       \/ /\ CurMint \notin ataExists
          /\ IF ~req.wallet.sendTransaction
             THEN Throw("WalletNoSendTransaction") /\ UNCHANGED <<calls, ataFor>>
             ELSE /\ pc' = "ataSendWait"
                  /\ calls' = calls \cup {"sendTransaction:ata"}
                  /\ UNCHANGED <<result, failedAt, ataFor>>
    /\ UNCHANGED <<endpoint, poolAccount, ataExists, req, ataTxs,
                   amountIn, computation, swapResult>>
    /\ UNCHANGED cvVars
    /\ UNCHANGED extVars

\* Lines 337-338: wallet.sendTransaction answers with a signature or rejects.
AtaSendReturns ==
    /\ pc = "ataSendWait"
    /\ \/ Throw("AccountCreationFailed") /\ UNCHANGED <<calls, ataTxs>>
       \/ /\ pc' = "ataBlockhashWait"
          /\ ataTxs' = Append(ataTxs, CurMint)
          /\ calls' = calls \cup {"getLatestBlockhash"}
          /\ UNCHANGED <<result, failedAt>>
    /\ UNCHANGED <<endpoint, poolAccount, ataExists, req, ataFor,
                   amountIn, computation, swapResult>>
    /\ UNCHANGED cvVars
    /\ UNCHANGED extVars

\* Lines 338-342: the blockhash arrives and the confirmation is requested.
AtaBlockhashReturns ==
    /\ pc = "ataBlockhashWait"
    /\ \/ Throw("TransportError") /\ UNCHANGED calls
       \/ /\ pc' = "ataConfirmWait"
          /\ calls' = calls \cup {"confirmTransaction"}
          /\ UNCHANGED <<result, failedAt>>
    /\ UNCHANGED <<endpoint, poolAccount, ataExists, req, ataFor, ataTxs,
                   amountIn, computation, swapResult>>
    /\ UNCHANGED cvVars
    /\ UNCHANGED extVars

\* Lines 339-343: confirmTransaction resolves (the transaction succeeded, or
\* it failed and the resolved value carries the error, which the code does
\* not read) or rejects (the transaction may still have landed).
AtaConfirmReturns ==
    /\ pc = "ataConfirmWait"
    /\ \/ /\ Throw("AccountCreationFailed")
          /\ ataExists' \in {ataExists, ataExists \cup {CurMint}}
          /\ UNCHANGED <<calls, ataFor>>
       \/ /\ ataExists' = ataExists \cup {CurMint}
          /\ AfterEnsure
          /\ UNCHANGED <<result, failedAt>>
       \/ /\ ataExists' = ataExists
          /\ AfterEnsure
          /\ UNCHANGED <<result, failedAt>>
    /\ UNCHANGED <<endpoint, poolAccount, req, ataTxs,
                   amountIn, computation, swapResult>>
    /\ UNCHANGED cvVars
    /\ UNCHANGED extVars

\* Lines 164-167: the wallet token accounts are loaded, the pool is fetched.
WalletAccountsReturn ==
    /\ pc = "walletAccountsWait"
    /\ \/ Throw("TransportError") /\ UNCHANGED calls
       \/ /\ pc' = "poolRpcWait"
          /\ calls' = calls \cup {"getPoolInfoFromRpc"}
          /\ UNCHANGED <<result, failedAt>>
    /\ UNCHANGED <<endpoint, poolAccount, ataExists, req, ataFor, ataTxs,
                   amountIn, computation, swapResult>>
    /\ UNCHANGED cvVars
    /\ UNCHANGED extVars

\* The local checks with an amount test that only looks at the sign.
LocalChecksSignOnly(r, complete) ==
    LET inputMintInfo == MintInfoFor(r.tokenInMint)
        outputMintInfo == MintInfoFor(r.tokenOutMint)
        amt == uiAmountToBN(r.amount, inputMintInfo.decimals)
    IN IF inputMintInfo = NullMint THEN "TokenNotInPool"
       ELSE IF outputMintInfo = NullMint THEN "TokenNotInPool"
       ELSE IF amt.kind = "throw" THEN "InvalidAmount"
       ELSE IF isNeg(amt) THEN "NonPositiveAmount"
       ELSE IF ~complete THEN "PoolDataUnavailable"
       ELSE "ok"

\* Lines 171-199: the error the local checks end in, "ok" when they pass.
\* complete: the snapshot carries tick data and compute info.
LocalChecks(r, complete) ==
    LET inputMintInfo == MintInfoFor(r.tokenInMint)
        outputMintInfo == MintInfoFor(r.tokenOutMint)
        amt == uiAmountToBN(r.amount, inputMintInfo.decimals)
    IN IF inputMintInfo = NullMint THEN "TokenNotInPool"
       ELSE IF outputMintInfo = NullMint THEN "TokenNotInPool"
       ELSE IF amt.kind = "throw" THEN "InvalidAmount"
       ELSE IF isZero(amt) \/ isNeg(amt) THEN "NonPositiveAmount"
       ELSE IF ~complete THEN "PoolDataUnavailable"
       ELSE "ok"

\* Lines 167-201: the pool snapshot arrives, the mints and the amount are
\* checked, the epoch info is requested.
PoolRpcReturns(complete) ==
    /\ pc = "poolRpcWait"
    /\ \/ Throw("TransportError") /\ UNCHANGED <<calls, amountIn>>
       \/ IF LocalChecks(req, complete) # "ok"
          THEN /\ Throw(LocalChecks(req, complete))
               /\ amountIn' = IF LocalChecks(req, complete) \in {"NonPositiveAmount", "PoolDataUnavailable"}
                              THEN uiAmountToBN(req.amount, MintInfoFor(req.tokenInMint).decimals)
                              ELSE amountIn
               /\ UNCHANGED calls
          ELSE /\ pc' = "epochWait"
               /\ amountIn' = uiAmountToBN(req.amount, MintInfoFor(req.tokenInMint).decimals)
               /\ calls' = calls \cup {"fetchEpochInfo"}
               /\ UNCHANGED <<result, failedAt>>
    /\ UNCHANGED <<endpoint, poolAccount, ataExists, req, ataFor, ataTxs,
                   computation, swapResult>>
    /\ UNCHANGED cvVars
    /\ UNCHANGED extVars

\* The epoch step without the allTrade test.
EpochInfoReturnsUnchecked(allTrade, minAmountOut) ==
    /\ pc = "epochWait"
    /\ \/ Throw("TransportError") /\ UNCHANGED <<calls, computation>>
       \/ /\ computation' = [allTrade |-> allTrade, minAmountOut |-> minAmountOut]
          /\ pc' = "swapBuildWait"
          /\ calls' = calls \cup {"computeAmountOut", "clmm.swap"}
          /\ UNCHANGED <<result, failedAt>>
    /\ UNCHANGED <<endpoint, poolAccount, ataExists, req, ataFor, ataTxs,
                   amountIn, swapResult>>
    /\ UNCHANGED cvVars
    /\ UNCHANGED extVars

\* Lines 201-228: the epoch info arrives, PoolUtils.computeAmountOut answers,
\* the swap transaction is requested from raydium.clmm.swap.
EpochInfoReturns(allTrade, minAmountOut) ==
    /\ pc = "epochWait"
    /\ \/ Throw("TransportError") /\ UNCHANGED <<calls, computation>>
       \/ /\ computation' = [allTrade |-> allTrade, minAmountOut |-> minAmountOut]
          /\ IF ~allTrade
             THEN /\ Throw("InsufficientLiquidity")
                  /\ calls' = calls \cup {"computeAmountOut"}
             ELSE /\ pc' = "swapBuildWait"
                  /\ calls' = calls \cup {"computeAmountOut", "clmm.swap"}
                  /\ UNCHANGED <<result, failedAt>>
    /\ UNCHANGED <<endpoint, poolAccount, ataExists, req, ataFor, ataTxs,
                   amountIn, swapResult>>
    /\ UNCHANGED cvVars
    /\ UNCHANGED extVars

\* Lines 216-233: the swap transaction is built and handed to execute.
SwapBuildReturns ==
    /\ pc = "swapBuildWait"
    /\ \/ Throw("TransportError") /\ UNCHANGED calls
       \/ /\ pc' = "executeWait"
          /\ calls' = calls \cup {"execute"}
          /\ UNCHANGED <<result, failedAt>>
    /\ UNCHANGED <<endpoint, poolAccount, ataExists, req, ataFor, ataTxs,
                   amountIn, computation, swapResult>>
    /\ UNCHANGED cvVars
    /\ UNCHANGED extVars

\* Lines 230-244: execute confirms the swap or fails; the result is built.
ExecuteReturns ==
    /\ pc = "executeWait"
    /\ \/ Throw("TransactionSendFailed") /\ UNCHANGED swapResult
       \/ Throw("ConfirmationTimeout") /\ UNCHANGED swapResult
       \/ /\ pc' = "done"
          /\ result' = "ok"
          /\ failedAt' = "none"
          /\ swapResult' =
                [txId |-> "signature",
                 amountOut |-> computation.minAmountOut,
                 amountOutUi |-> formatTokenAmount(BNOf(computation.minAmountOut),
                                                   MintInfoFor(req.tokenOutMint).decimals),
                 outputMint |-> req.tokenOutMint,
                 outputSymbol |-> MintInfoFor(req.tokenOutMint).symbol]
    /\ UNCHANGED <<endpoint, poolAccount, ataExists, req, calls, ataFor, ataTxs,
                   amountIn, computation>>
    /\ UNCHANGED cvVars
    /\ UNCHANGED extVars

\* The promise has settled; the caller may call performClmmSwap again.
Settle ==
    /\ pc = "done"
    /\ pc' = "idle"
    /\ req' = IdleReq
    /\ calls' = {}
    /\ ataFor' = "in"
    /\ ataTxs' = <<>>
    /\ amountIn' = BNOf(0)
    /\ computation' = NoComputation
    /\ result' = "none"
    /\ failedAt' = "none"
    /\ swapResult' = NoSwapResult
    /\ UNCHANGED <<endpoint, poolAccount, ataExists>>
    /\ UNCHANGED cvVars
    /\ UNCHANGED extVars

Next ==
    \/ \E r \in Requests :
          Start(r.wallet, r.poolId, r.tokenInMint, r.tokenOutMint, r.amount)
    \/ PoolAccountInfoReturns
    \/ RaydiumLoadReturns
    \/ AtaInfoReturns
    \/ AtaSendReturns
    \/ AtaBlockhashReturns
    \/ AtaConfirmReturns
    \/ WalletAccountsReturn
    \/ \E complete \in BOOLEAN : PoolRpcReturns(complete)
    \/ \E allTrade \in BOOLEAN, minAmountOut \in OracleOuts : EpochInfoReturns(allTrade, minAmountOut)
    \/ SwapBuildReturns
    \/ ExecuteReturns
    \/ Settle

(***************************************************************************)
(* The signing capability built by createRaydiumContext: the function      *)
(* resolveSignAllTransactions returns is called with a list of             *)
(* transactions.  sgCalls lists the calls made to the wallet.              *)
(***************************************************************************)
MaxTxs == 3

TxIds == {"txA", "txB"}

RECURSIVE TxSeqsUpTo(_)
TxSeqsUpTo(n) ==
    IF n = 0 THEN {<<>>}
    ELSE LET shorter == TxSeqsUpTo(n - 1)
         IN shorter \cup {Append(s, t) : s \in {u \in shorter : Len(u) = n - 1}, t \in TxIds}

\* What the wallet hands back for a transaction it signed.
SignedTx(tx) == [signed |-> tx]

SignOff ==
    /\ sgPc = "off"
    /\ sgWallet = IdleWallet
    /\ sgTxs = <<>>
    /\ sgMode = "none"
    /\ sgIdx = 0
    /\ sgSigned = <<>>
    /\ sgCalls = <<>>

InitSignInputs ==
    /\ sgPc = "start"
    /\ sgWallet \in {w \in Wallets : w.publicKey /\ w.sendTransaction}
    /\ sgTxs \in TxSeqsUpTo(MaxTxs)
    /\ sgMode = "none"
    /\ sgIdx = 0
    /\ sgSigned = <<>>
    /\ sgCalls = <<>>

sgRest == <<cvVars, swapVars, snVars, hkVars, enVars>>

\* Lines 268, 282-302: createRaydiumContext resolves the signing capability.
CreateSession ==
    /\ sgPc = "start"
    /\ sgMode' = resolveSignAllTransactions(sgWallet)
    /\ sgPc' = IF resolveSignAllTransactions(sgWallet) = "throw" THEN "cannotSign" ELSE "ready"
    /\ UNCHANGED <<sgWallet, sgTxs, sgIdx, sgSigned, sgCalls>>
    /\ UNCHANGED sgRest

\* Line 284: the bound wallet.signAllTransactions is called with the list.
SignAllCall ==
    /\ sgPc = "ready"
    /\ sgMode = "signAll"
    /\ sgCalls' = Append(sgCalls, [fn |-> "signAllTransactions", arg |-> sgTxs])
    /\ \/ /\ sgSigned' = [i \in 1..Len(sgTxs) |-> SignedTx(sgTxs[i])]
          /\ sgPc' = "signed"
       \/ /\ sgSigned' = sgSigned
          /\ sgPc' = "rejected"
    /\ UNCHANGED <<sgWallet, sgTxs, sgMode, sgIdx>>
    /\ UNCHANGED sgRest

\* Lines 288-291: the fallback is called; signed starts empty.
SignEachCall ==
    /\ sgPc = "ready"
    /\ sgMode = "signEach"
    /\ sgSigned' = <<>>
    /\ sgIdx' = 1
    /\ sgPc' = "loop"
    /\ UNCHANGED <<sgWallet, sgTxs, sgMode, sgCalls>>
    /\ UNCHANGED sgRest

\* Lines 292-296: one turn of the loop, or the return once the list is done.
SignEachStep ==
    /\ sgPc = "loop"
    /\ IF sgIdx <= Len(sgTxs)
       THEN /\ sgCalls' = Append(sgCalls, [fn |-> "signTransaction", arg |-> <<sgTxs[sgIdx]>>])
            /\ \/ /\ sgSigned' = Append(sgSigned, SignedTx(sgTxs[sgIdx]))
                  /\ sgIdx' = sgIdx + 1
                  /\ sgPc' = "loop"
               \/ /\ sgPc' = "rejected"
                  /\ UNCHANGED <<sgSigned, sgIdx>>
       ELSE /\ sgPc' = "signed"
            /\ UNCHANGED <<sgSigned, sgIdx, sgCalls>>
    /\ UNCHANGED <<sgWallet, sgTxs, sgMode>>
    /\ UNCHANGED sgRest

NextSign == CreateSession \/ SignAllCall \/ SignEachCall \/ SignEachStep

(***************************************************************************)
(* The pool snapshot effect of useClmmSwap (app/features/clmm/useClmmSwap): *)
(* it runs at mount and whenever connection or form.poolAddress changes.   *)
(* Every run has its own cancelled flag; the cleanup of a run sets it.     *)
(* fetches holds the fetchClmmPoolSnapshot promises not yet settled, snGen *)
(* counts the runs of the effect, snLast records the last settlement.      *)
(***************************************************************************)
MaxEffects == 3

SnapAddrs == {"POOL", "POOL2", NotBase58}

SnapConns == {"rpcA", "rpcB"}

\* poolSnapshot = null
NoSnapshot == [id |-> "null", from |-> 0]

NoSettle == [gen |-> 0, applied |-> FALSE]

EnterValidAddress == "Enter a valid CLMM pool address."

isValidAddress(value) == ValidKey(value)

\* The errors fetchClmmPoolSnapshot rethrows: those of assertClmmPoolAccount
\* for a parsable address, and a failed RPC call.
FetchErrors ==
    ({assertClmmPoolAccount(a, info) : a \in SnapAddrs \ {NotBase58}, info \in AccountInfos}
        \ {"ok"}) \cup {"TransportError"}

SnapOff ==
    /\ snAddr = NotBase58
    /\ snConn = "none"
    /\ poolSnapshot = NoSnapshot
    /\ snapshotLoading = FALSE
    /\ snapshotError = "null"
    /\ fetches = {}
    /\ snGen = 0
    /\ snLast = NoSettle

\* useState initial values; form.poolAddress comes from initialState.
InitSnapInputs ==
    /\ snAddr \in SnapAddrs
    /\ snConn \in SnapConns
    /\ poolSnapshot = NoSnapshot
    /\ snapshotLoading = FALSE
    /\ snapshotError = "null"
    /\ fetches = {}
    /\ snGen = 0
    /\ snLast = NoSettle

snRest == <<cvVars, swapVars, sgVars, hkVars, enVars>>

\* Lines 94-96: the cleanup of the previous run sets that run's flag.
Cleanup ==
    {IF f.gen = snGen THEN [f EXCEPT !.cancelled = TRUE] ELSE f : f \in fetches}

\* Lines 64-97: one run of the effect, after the cleanup of the previous one.
RunEffect(addr, conn) ==
    /\ snGen' = snGen + 1
    /\ IF ~isValidAddress(addr)
       THEN /\ poolSnapshot' = NoSnapshot
            /\ snapshotError' = EnterValidAddress
            /\ fetches' = Cleanup
            /\ UNCHANGED snapshotLoading
       ELSE /\ snapshotLoading' = TRUE
            /\ snapshotError' = "null"
            /\ fetches' = Cleanup \cup
                  {[gen |-> snGen + 1, addr |-> addr, conn |-> conn, cancelled |-> FALSE]}
            /\ UNCHANGED poolSnapshot

\* First render: the effect runs for the initial address.
Mount ==
    /\ snGen = 0
    /\ snConn # "none"
    /\ RunEffect(snAddr, snConn)
    /\ UNCHANGED <<snAddr, snConn, snLast>>
    /\ UNCHANGED snRest

\* handleChange("poolAddress") or updateForm({poolAddress}) with a new value.
ChangeAddress(a) ==
    /\ snGen \in 1..(MaxEffects - 1)
    /\ a # snAddr
    /\ snAddr' = a
    /\ RunEffect(a, snConn)
    /\ UNCHANGED <<snConn, snLast>>
    /\ UNCHANGED snRest

\* useConnection() hands the hook another connection.
ChangeConnection(c) ==
    /\ snGen \in 1..(MaxEffects - 1)
    /\ c # snConn
    /\ snConn' = c
    /\ RunEffect(snAddr, c)
    /\ UNCHANGED <<snAddr, snLast>>
    /\ UNCHANGED snRest

\* The fetch resolves and .then applies the snapshot whatever the flag says.
FetchResolvesUnchecked(f) ==
    /\ f \in fetches
    /\ fetches' = fetches \ {f}
    /\ snLast' = [gen |-> f.gen, applied |-> TRUE]
    /\ poolSnapshot' = [id |-> f.addr, from |-> f.gen]
    /\ snapshotLoading' = IF f.cancelled THEN snapshotLoading ELSE FALSE
    /\ UNCHANGED <<snAddr, snConn, snapshotError, snGen>>
    /\ UNCHANGED snRest

\* Lines 75-78, 88-92: the fetch resolves; .then and .finally run.
FetchResolves(f) ==
    /\ f \in fetches
    /\ fetches' = fetches \ {f}
    /\ snLast' = [gen |-> f.gen, applied |-> ~f.cancelled]
    /\ IF f.cancelled
       THEN UNCHANGED <<poolSnapshot, snapshotLoading>>
       ELSE /\ poolSnapshot' = [id |-> f.addr, from |-> f.gen]
            /\ snapshotLoading' = FALSE
    /\ UNCHANGED <<snAddr, snConn, snapshotError, snGen>>
    /\ UNCHANGED snRest

\* Lines 79-92: the fetch rejects; .catch and .finally run.
FetchRejects(f, err) ==
    /\ f \in fetches
    /\ fetches' = fetches \ {f}
    /\ snLast' = [gen |-> f.gen, applied |-> ~f.cancelled]
    /\ IF f.cancelled
       THEN UNCHANGED <<poolSnapshot, snapshotError, snapshotLoading>>
       ELSE /\ poolSnapshot' = NoSnapshot
            /\ snapshotError' = err
            /\ snapshotLoading' = FALSE
    /\ UNCHANGED <<snAddr, snConn, snGen>>
    /\ UNCHANGED snRest

NextSnap ==
    \/ Mount
    \/ \E a \in SnapAddrs : ChangeAddress(a)
    \/ \E c \in SnapConns : ChangeConnection(c)
    \/ \E f \in fetches : FetchResolves(f)
    \/ \E f \in fetches, err \in FetchErrors : FetchRejects(f, err)

(***************************************************************************)
(* The form side of useClmmSwap: the fields, status, statusMessage and     *)
(* lastSwap, the change and submit handlers, and the performClmmSwap calls *)
(* handleSubmit awaits.  hkCalls holds the calls not yet settled, hkLast   *)
(* the last settlement, hkResolved the calls that returned a SwapResult.   *)
(***************************************************************************)
MaxSubmits == 2

HookAmounts == { <<"0", ".", "0", "5">>, <<"0">>, <<>>, <<"1", "x">> }

\* TOKEN_ADDRESSES_MAP entry used by applyPreset.
Presets == { [poolId |-> "POOL2", baseMint |-> "OTHER"] }

FormFields ==
    [poolAddress |-> {"POOL", "POOL2", NotBase58},
     tokenInAddress |-> {"WSOL", "OTHER", NotBase58},
     tokenOutAddress |-> {"USDC", NotBase58},
     amount |-> HookAmounts]

\* initialFormState of the home route.
InitialForm == [poolAddress |-> "POOL", tokenInAddress |-> "WSOL",
                tokenOutAddress |-> "USDC", amount |-> <<"0", ".", "0", "5">>]

HookWallets == { [connected |-> FALSE, publicKey |-> FALSE],
                 [connected |-> TRUE, publicKey |-> TRUE] }

NoLastSwap == [signature |-> 0]

NoHookSettle == [id |-> 0, ok |-> FALSE, error |-> "none"]

SubmittingMessage == "Submitting swap via Raydium CLMM..."

SuccessMessage == "Swap submitted successfully - see details below."

FillFieldsMessage == "Fill every field with valid values to continue."

ConnectWalletMessage == "Connect a wallet before submitting a swap."

\* Messages of the errors a performClmmSwap call can reject with.
SwapErrors == {"TransportError", "InsufficientLiquidity", "TransactionSendFailed"}

\* Number(text) of a decimal string: "" and blanks give 0, digits with an
\* optional fraction give their value, anything else here gives NaN.
IsDecimalText(t) ==
    /\ AllDigits(SplitWhole(t) \o SplitFraction(t))
    /\ SplitWhole(t) \o SplitFraction(t) # <<>>
    /\ Len(SelectSeq(t, LAMBDA c : c = ".")) <= 1

amountIsValid(text) ==
    /\ IsDecimalText(Trim(text))
    /\ ParseDigits(SplitWhole(Trim(text)) \o SplitFraction(Trim(text))) > 0

addressesAreValid(f) ==
    /\ isValidAddress(f.poolAddress)
    /\ isValidAddress(f.tokenInAddress)
    /\ isValidAddress(f.tokenOutAddress)

walletReady == hkWallet.connected /\ hkWallet.publicKey

swapDisabled ==
    \/ status = "submitting"
    \/ ~amountIsValid(form.amount)
    \/ ~addressesAreValid(form)
    \/ ~walletReady

HookOff ==
    /\ form = InitialForm
    /\ hkWallet = [connected |-> FALSE, publicKey |-> FALSE]
    /\ status = "off"
    /\ statusMessage = "null"
    /\ lastSwap = NoLastSwap
    /\ hkCalls = {}
    /\ hkStarted = 0
    /\ hkLast = NoHookSettle
    /\ hkResolved = {}

InitHookInputs ==
    /\ form = InitialForm
    /\ hkWallet \in HookWallets
    /\ status = "idle"
    /\ statusMessage = "null"
    /\ lastSwap = NoLastSwap
    /\ hkCalls = {}
    /\ hkStarted = 0
    /\ hkLast = NoHookSettle
    /\ hkResolved = {}

hkRest == <<cvVars, swapVars, sgVars, snVars, enVars>>

\* Lines 113-121: a field edit.
HandleChange(name, value) ==
    /\ status # "off"
    /\ value # form[name]
    /\ form' = [form EXCEPT ![name] = value]
    /\ status' = "idle"
    /\ statusMessage' = "null"
    /\ UNCHANGED <<hkWallet, lastSwap, hkCalls, hkStarted, hkLast, hkResolved>>
    /\ UNCHANGED hkRest

\* Lines 123-129, called by applyPreset of the home route.
UpdateForm(preset) ==
    /\ status # "off"
    /\ form' = [form EXCEPT !.poolAddress = preset.poolId,
                            !.tokenInAddress = preset.baseMint]
    /\ status' = "idle"
    /\ statusMessage' = "null"
    /\ UNCHANGED <<hkWallet, lastSwap, hkCalls, hkStarted, hkLast, hkResolved>>
    /\ UNCHANGED hkRest

\* useWallet() reports a connect or a disconnect.
WalletChanges(w) ==
    /\ status # "off"
    /\ w # hkWallet
    /\ hkWallet' = w
    /\ UNCHANGED <<form, status, statusMessage, lastSwap, hkCalls, hkStarted,
                   hkLast, hkResolved>>
    /\ UNCHANGED hkRest

\* Lines 131-155: a submit event, up to the await of performClmmSwap.
HandleSubmit ==
    /\ status # "off"
    /\ IF swapDisabled
       THEN /\ statusMessage' = IF walletReady THEN FillFieldsMessage
                                ELSE ConnectWalletMessage
            /\ UNCHANGED <<status, lastSwap, hkCalls, hkStarted>>
       ELSE /\ hkStarted < MaxSubmits
            /\ status' = "submitting"
            /\ lastSwap' = NoLastSwap
            /\ statusMessage' = SubmittingMessage
            /\ hkStarted' = hkStarted + 1
            /\ hkCalls' = hkCalls \cup {hkStarted + 1}
    /\ UNCHANGED <<form, hkWallet, hkLast, hkResolved>>
    /\ UNCHANGED hkRest

\* Lines 157-162: performClmmSwap resolved with a SwapResult.
CallResolves(c) ==
    /\ c \in hkCalls
    /\ hkCalls' = hkCalls \ {c}
    /\ status' = "success"
    /\ statusMessage' = SuccessMessage
    /\ lastSwap' = [signature |-> c]
    /\ hkLast' = [id |-> c, ok |-> TRUE, error |-> "none"]
    /\ hkResolved' = hkResolved \cup {c}
    /\ UNCHANGED <<form, hkWallet, hkStarted>>
    /\ UNCHANGED hkRest

\* Lines 163-171: performClmmSwap rejected.
CallRejects(c, err) ==
    /\ c \in hkCalls
    /\ hkCalls' = hkCalls \ {c}
    /\ status' = "idle"
    /\ statusMessage' = err
    /\ hkLast' = [id |-> c, ok |-> FALSE, error |-> err]
    /\ UNCHANGED <<form, hkWallet, lastSwap, hkStarted, hkResolved>>
    /\ UNCHANGED hkRest

NextHook ==
    \/ \E name \in DOMAIN FormFields : \E value \in FormFields[name] : HandleChange(name, value)
    \/ \E preset \in Presets : UpdateForm(preset)
    \/ \E w \in HookWallets : WalletChanges(w)
    \/ HandleSubmit
    \/ \E c \in hkCalls : CallResolves(c)
    \/ \E c \in hkCalls, err \in SwapErrors : CallRejects(c, err)

(***************************************************************************)
(* Concurrent calls of ensureAtaExists for one owner, as made by           *)
(* performClmmSwap calls that overlap.  enAta is the set of mints whose    *)
(* associated token account exists on chain; enPending holds the creation  *)
(* transactions submitted and not yet processed by the chain.              *)
(***************************************************************************)
MaxCallers == 2

EnsureCallers == 1..MaxCallers

EnsureMints == {"WSOL", "USDC"}

EnsureOff ==
    /\ enWallet = IdleWallet
    /\ enPc = [c \in EnsureCallers |-> "off"]
    /\ enMint = [c \in EnsureCallers |-> "none"]
    /\ enAta = {}
    /\ enPending = {}

InitEnsureInputs ==
    /\ enWallet \in {w \in Wallets : w.publicKey /\ w.signAllTransactions /\ w.signTransaction}
    /\ enPc = [c \in EnsureCallers |-> "idle"]
    /\ enMint = [c \in EnsureCallers |-> "none"]
    /\ enAta \in SUBSET EnsureMints
    /\ enPending = {}

enRest == <<cvVars, swapVars, sgVars, snVars, hkVars>>

\* Lines 161-162, 304-317: a caller asks for the account of a mint.
EnsureCall(c, mint) ==
    /\ enPc[c] = "idle"
    /\ enPc' = [enPc EXCEPT ![c] = "ataQueryWait"]
    /\ enMint' = [enMint EXCEPT ![c] = mint]
    /\ UNCHANGED <<enWallet, enAta, enPending>>
    /\ UNCHANGED enRest

\* Lines 317-337: getAccountInfo answers.
EnsureInfoReturns(c) ==
    /\ enPc[c] = "ataQueryWait"
    /\ \/ enPc' = [enPc EXCEPT ![c] = "failed"]
       \/ /\ enMint[c] \in enAta
          /\ enPc' = [enPc EXCEPT ![c] = "returned"]
       \/ /\ enMint[c] \notin enAta
          /\ enPc' = [enPc EXCEPT ![c] =
                         IF enWallet.sendTransaction THEN "ataSendWait" ELSE "failed"]
    /\ UNCHANGED <<enWallet, enMint, enAta, enPending>>
    /\ UNCHANGED enRest

\* Lines 337-338: wallet.sendTransaction rejects, or submits the transaction.
EnsureSendReturns(c) ==
    /\ enPc[c] = "ataSendWait"
    /\ \/ /\ enPc' = [enPc EXCEPT ![c] = "failed"]
          /\ UNCHANGED enPending
       \/ /\ enPc' = [enPc EXCEPT ![c] = "ataBlockhashWait"]
          /\ enPending' = enPending \cup {[caller |-> c, mint |-> enMint[c]]}
    /\ UNCHANGED <<enWallet, enMint, enAta>>
    /\ UNCHANGED enRest

\* Lines 338-339: getLatestBlockhash answers.
EnsureBlockhashReturns(c) ==
    /\ enPc[c] = "ataBlockhashWait"
    /\ \/ enPc' = [enPc EXCEPT ![c] = "failed"]
       \/ enPc' = [enPc EXCEPT ![c] = "ataConfirmWait"]
    /\ UNCHANGED <<enWallet, enMint, enAta, enPending>>
    /\ UNCHANGED enRest

\* The chain processes a submitted creation: the account is created, or the
\* transaction fails or is dropped and the accounts stay as they are.
ChainProcesses(t) ==
    /\ t \in enPending
    /\ enPending' = enPending \ {t}
    /\ \/ /\ t.mint \notin enAta
          /\ enAta' = enAta \cup {t.mint}
       \/ enAta' = enAta
    /\ UNCHANGED <<enWallet, enPc, enMint>>
    /\ UNCHANGED enRest

\* Lines 339-343: confirmTransaction resolves once the transaction was
\* processed (its value is not read), or rejects.
EnsureConfirmReturns(c) ==
    /\ enPc[c] = "ataConfirmWait"
    /\ \/ enPc' = [enPc EXCEPT ![c] = "failed"]
       \/ /\ [caller |-> c, mint |-> enMint[c]] \notin enPending
          /\ enPc' = [enPc EXCEPT ![c] = "returned"]
    /\ UNCHANGED <<enWallet, enMint, enAta, enPending>>
    /\ UNCHANGED enRest

NextEnsure ==
    \/ \E c \in EnsureCallers, mint \in EnsureMints : EnsureCall(c, mint)
    \/ \E c \in EnsureCallers : EnsureInfoReturns(c)
    \/ \E c \in EnsureCallers : EnsureSendReturns(c)
    \/ \E c \in EnsureCallers : EnsureBlockhashReturns(c)
    \/ \E t \in enPending : ChainProcesses(t)
    \/ \E c \in EnsureCallers : EnsureConfirmReturns(c)

ExtOff == SignOff /\ SnapOff /\ HookOff /\ EnsureOff

Init == InitSwap /\ ConvOff /\ ExtOff

InitConv == InitConvInputs /\ SwapOff /\ ExtOff

InitSign == InitSignInputs /\ ConvOff /\ SwapOff /\ SnapOff /\ HookOff /\ EnsureOff

InitSnap == InitSnapInputs /\ ConvOff /\ SwapOff /\ SignOff /\ HookOff /\ EnsureOff

InitHook == InitHookInputs /\ ConvOff /\ SwapOff /\ SignOff /\ SnapOff /\ EnsureOff

InitEnsure == InitEnsureInputs /\ ConvOff /\ SwapOff /\ SignOff /\ SnapOff /\ HookOff

Spec == Init /\ [][Next]_vars

SpecConv == InitConv /\ [][NextConv]_vars

SpecSign == InitSign /\ [][NextSign]_vars

SpecSnap == InitSnap /\ [][NextSnap]_vars

SpecHook == InitHook /\ [][NextHook]_vars

SpecEnsure == InitEnsure /\ [][NextEnsure]_vars

(***************************************************************************)
(* Properties of the amount conversions, checked under SpecConv.           *)
(***************************************************************************)

\* C1: formatting a non-negative integer amount with d decimal places and
\* converting the string back with the same d gives the amount again.
RoundTripExact ==
    (cvPhase = "bn" /\ cvOrigin = "formatted") => cvBN = BNOf(cvAmt)

RoundTripWitness ==
    /\ cvPhase = "bn"
    /\ cvOrigin = "formatted"
    /\ cvAmt = 1050
    /\ cvDec = 2
    /\ cvStr = <<"1", "0", ".", "5">>
    /\ cvBN.mag = 1050

\* s has the form digits[.digits].
IsPlainDecimal(s) ==
    LET w == SplitWhole(s)
        f == SplitFraction(s)
    IN /\ w # <<>>
       /\ AllDigits(w)
       /\ AllDigits(f)
       /\ \/ s = w
          \/ f # <<>> /\ s = w \o <<".">> \o f

\* C2: for a typed string digits[.digits] the converted amount is
\* floor(value * 10^d): surplus fraction digits are dropped, never rounded
\* and never rejected, so the amount never exceeds what was typed.
TruncationNeverRounds ==
    (cvPhase = "bn" /\ cvOrigin = "typed" /\ IsPlainDecimal(cvStr)) =>
        LET w == SplitWhole(cvStr)
            f == SplitFraction(cvStr)
            typedScaled == (ParseDigits(w) * Pow10(Len(f)) + ParseDigits(f)) * Pow10(cvDec)
        IN /\ cvBN = BNOf(typedScaled \div Pow10(Len(f)))
           /\ cvBN.mag * Pow10(Len(f)) <= typedScaled

TruncationWitness ==
    /\ cvPhase = "bn"
    /\ cvOrigin = "typed"
    /\ cvStr = <<"1", ".", "9", "9">>
    /\ cvDec = 1
    /\ cvBN.mag = 19

\* C3: the conversion never returns a negative integer, and an empty,
\* blank or "-"-prefixed string is converted to zero.
NeverNegative ==
    (cvPhase = "bn" /\ cvOrigin = "typed") =>
        /\ ~(cvBN.negative = 1 /\ cvBN.mag > 0)
        /\ (Trim(cvStr) = <<>> \/ StartsWith(Trim(cvStr), "-")) => cvBN = BNOf(0)

\* C4: the formatted string denotes exactly n / 10^d and is canonical:
\* verbatim digits when d = 0, otherwise a non-empty whole part, at most d
\* fraction digits, no trailing zero, and no point without a fraction.
CanonicalDecimalString ==
    (cvOrigin = "formatted" /\ cvPhase \in {"str", "bn"}) =>
        LET w == SplitWhole(cvStr)
            f == SplitFraction(cvStr)
        IN /\ w # <<>>
           /\ AllDigits(w)
           /\ AllDigits(f)
           /\ cvStr = (IF f = <<>> THEN w ELSE w \o <<".">> \o f)
           /\ Len(f) <= cvDec
           /\ f # <<>> => f[Len(f)] # "0"
           /\ ParseDigits(w) * Pow10(cvDec) + ParseDigits(f) * Pow10(cvDec - Len(f)) = cvAmt
           /\ cvDec = 0 => (cvStr = w /\ (Len(w) > 1 => w[1] # "0"))
           /\ cvAmt < Pow10(cvDec) => w = <<"0">>

CanonicalWitness ==
    /\ cvOrigin = "formatted"
    /\ cvPhase = "str"
    /\ cvAmt = 100
    /\ cvDec = 3
    /\ cvStr = <<"0", ".", "1">>

(***************************************************************************)
(* Properties of performClmmSwap, checked under Spec.                      *)
(***************************************************************************)

\* The running request got past the wallet checks and the mint keys, and
\* the pool account lookup has answered.
ResolveAnswered ==
    /\ pc \notin {"idle", "poolInfoWait"}
    /\ req.wallet.publicKey
    /\ req.wallet.sendTransaction
    /\ ValidKey(req.tokenInMint)
    /\ ValidKey(req.tokenOutMint)
    /\ ~(failedAt = "poolInfoWait" /\ result = "TransportError")

\* What the pool resolution of the running request ended in.
ResolveOutcome ==
    IF /\ failedAt \in {"idle", "poolInfoWait"}
       /\ result \in {"InvalidAddress", "PoolNotFound", "WrongProgramOwner", "MalformedAccount"}
    THEN result
    ELSE "ok"

OwnerAllowed == poolAccount.owner \in {CLMM_PROGRAM_ID, DEVNET_CLMM_PROGRAM_ID}

\* C5: the pool resolution reports the first failing check in the order
\* InvalidAddress, PoolNotFound, WrongProgramOwner (whatever the size),
\* MalformedAccount (length below the span), and passes exactly when none
\* applies; a malformed key is rejected before the account is fetched.
ResolveChecksInOrder ==
    ResolveAnswered =>
        /\ ResolveOutcome = "InvalidAddress" <=> ~ValidKey(req.poolId)
        /\ ResolveOutcome = "PoolNotFound" <=>
              (ValidKey(req.poolId) /\ ~poolAccount.exists)
        /\ ResolveOutcome = "WrongProgramOwner" <=>
              (ValidKey(req.poolId) /\ poolAccount.exists /\ ~OwnerAllowed)
        /\ ResolveOutcome = "MalformedAccount" <=>
              (/\ ValidKey(req.poolId) /\ poolAccount.exists /\ OwnerAllowed
               /\ poolAccount.len < CLMM_POOL_ACCOUNT_SIZE)
        /\ ResolveOutcome = "ok" <=>
              (/\ ValidKey(req.poolId) /\ poolAccount.exists /\ OwnerAllowed
               /\ poolAccount.len >= CLMM_POOL_ACCOUNT_SIZE)
        /\ ResolveOutcome = "InvalidAddress" => calls = {}

ResolveOrderWitness ==
    /\ ResolveAnswered
    /\ result = "WrongProgramOwner"
    /\ poolAccount.exists
    /\ poolAccount.owner = AMM_PROGRAM_ID
    /\ poolAccount.len < CLMM_POOL_ACCOUNT_SIZE

\* The one program identity allow-listed for a network.
ProgramIdFor(cluster) ==
    IF cluster = "mainnet" THEN CLMM_PROGRAM_ID ELSE DEVNET_CLMM_PROGRAM_ID

\* C6: on a connection bound to network N the pool resolution passes only
\* for an account owned by the program identity of N.
OwnerCheckedPerNetwork ==
    (ResolveAnswered /\ ResolveOutcome = "ok") =>
        poolAccount.owner = ProgramIdFor(detectCluster(endpoint))

InputInPool == req.tokenInMint \in {PoolMintA.address, PoolMintB.address}

OutputInPool == req.tokenOutMint \in {PoolMintA.address, PoolMintB.address}

InputDecimals ==
    IF req.tokenInMint = PoolMintA.address THEN PoolMintA.decimals ELSE PoolMintB.decimals

\* The pool snapshot of the running request has arrived.
SnapshotArrived ==
    /\ "getPoolInfoFromRpc" \in calls
    /\ pc # "poolRpcWait"
    /\ ~(failedAt = "poolRpcWait" /\ result = "TransportError")

OracleCalls == {"fetchEpochInfo", "computeAmountOut"}

\* C7: once the pool snapshot is there, a request whose input mint is not a
\* mint of the pool ends in TokenNotInPool and a request (with both mints in
\* the pool) whose amount converts to zero ends in NonPositiveAmount; in
\* both cases neither the epoch fetch nor computeAmountOut was invoked.
RejectsBeforeComputing ==
    /\ (SnapshotArrived /\ ~InputInPool) => result = "TokenNotInPool"
    /\ (/\ SnapshotArrived /\ InputInPool /\ OutputInPool
        /\ uiAmountToBN(req.amount, InputDecimals) = BNOf(0)) => result = "NonPositiveAmount"
    /\ (pc # "idle" /\ (~InputInPool \/ uiAmountToBN(req.amount, InputDecimals) = BNOf(0))) =>
          calls \cap OracleCalls = {}

RejectsBeforeComputingWitness ==
    /\ SnapshotArrived
    /\ result = "NonPositiveAmount"
    /\ req.tokenInMint = "USDC"
    /\ req.tokenOutMint = "WSOL"
    /\ req.amount = <<"0", ".", "0", "0", "0", "0", "0", "0", "1">>
    /\ calls \cap OracleCalls = {}

\* C8: the swap is computed and built only when the input and the output
\* mint are the two different mints of the pool; for a request whose output
\* mint equals its input mint no swap transaction is built.
OutputIsTheOtherMint ==
    ("computeAmountOut" \in calls \/ "clmm.swap" \in calls \/ result = "ok") =>
        /\ {req.tokenInMint, req.tokenOutMint} = {PoolMintA.address, PoolMintB.address}
        /\ req.tokenInMint # req.tokenOutMint

\* C9: a request that ends in InvalidAddress, NonPositiveAmount or
\* TokenNotInPool has issued no network call and submitted no associated
\* account creation.
ValidationBeforeNetwork ==
    result \in {"InvalidAddress", "NonPositiveAmount", "TokenNotInPool"} =>
        (calls = {} /\ ataTxs = <<>>)

\* C10: when computeAmountOut reports allTrade false the request ends in
\* InsufficientLiquidity and no swap transaction is built or executed.
InsufficientLiquidityStopsSwap ==
    ("computeAmountOut" \in calls /\ ~computation.allTrade) =>
        /\ pc = "done"
        /\ result = "InsufficientLiquidity"
        /\ calls \cap {"clmm.swap", "execute"} = {}
        /\ swapResult = NoSwapResult

InsufficientLiquidityWitness ==
    /\ "computeAmountOut" \in calls
    /\ ~computation.allTrade
    /\ result = "InsufficientLiquidity"
    /\ amountIn.mag > 0

\* C11: two ensureAtaExists calls made one after the other for the same
\* owner and mint submit at most one creation transaction: the second call
\* finds the account and submits nothing.
EnsureTwiceCreatesOnce ==
    \A i \in DOMAIN ataTxs : \A j \in DOMAIN ataTxs : i # j => ataTxs[i] # ataTxs[j]

\* ensureAtaExists has returned an address for the input mint, for the
\* output mint.
EnsureReturnedIn == pc # "idle" /\ (ataFor = "out" \/ "fetchWalletTokenAccounts" \in calls)

EnsureReturnedOut == "fetchWalletTokenAccounts" \in calls

AtaStages == {"ataQueryWait", "ataSendWait", "ataBlockhashWait", "ataConfirmWait"}

\* C13: ensureAtaExists returns an address only for an account that exists
\* on chain; a rejected submission or a confirmation that fails or times out
\* ends the request in AccountCreationFailed before anything else is called.
EnsureReturnsOnlyExisting ==
    /\ EnsureReturnedIn => req.tokenInMint \in ataExists
    /\ EnsureReturnedOut => req.tokenOutMint \in ataExists
    /\ (pc = "done" /\ failedAt \in {"ataSendWait", "ataConfirmWait"}) =>
          /\ result = "AccountCreationFailed"
          /\ "fetchWalletTokenAccounts" \notin calls

\* C15: a call made with a wallet that has no public key ends in
\* WalletNotConnected with no account fetch, no context creation and no
\* transaction submission; WalletNotConnected is never raised later.
NoWalletNoNetwork ==
    /\ (pc # "idle" /\ ~req.wallet.publicKey) =>
          (pc = "done" /\ result = "WalletNotConnected")
    /\ result = "WalletNotConnected" =>
          (calls = {} /\ ataTxs = <<>> /\ failedAt = "idle" /\ ~req.wallet.publicKey)

NoWalletWitness ==
    /\ pc = "done"
    /\ ~req.wallet.publicKey
    /\ result = "WalletNotConnected"
    /\ calls = {}

\* C17: the swap transaction is requested only after ensureAtaExists has
\* returned for the input and for the output mint, and then both associated
\* accounts exist (found by the query or created and confirmed).
SwapBuiltAfterBothEnsured ==
    "clmm.swap" \in calls =>
        /\ EnsureReturnedIn
        /\ EnsureReturnedOut
        /\ req.tokenInMint \in ataExists
        /\ req.tokenOutMint \in ataExists

(***************************************************************************)
(* Properties of the signing capability, checked under SpecSign.           *)
(***************************************************************************)

SignOneCalls == SelectSeq(sgCalls, LAMBDA c : c.fn = "signTransaction")

SignAllCalls == SelectSeq(sgCalls, LAMBDA c : c.fn = "signAllTransactions")

\* C18: batch signing is chosen whenever the wallet has it; sequential
\* signing only without it, and then signTransaction is called once per
\* transaction in input order and the signed list has the length and the
\* order of the input; with neither the session fails and nothing is signed.
SigningCapabilityChoice ==
    sgPc \notin {"off", "start"} =>
        /\ sgMode = "signAll" <=> sgWallet.signAllTransactions
        /\ sgMode = "signEach" <=> (~sgWallet.signAllTransactions /\ sgWallet.signTransaction)
        /\ sgPc = "cannotSign" <=> (~sgWallet.signAllTransactions /\ ~sgWallet.signTransaction)
        /\ sgPc = "cannotSign" => sgCalls = <<>>
        /\ sgMode = "signAll" => SignOneCalls = <<>>
        /\ sgMode = "signEach" => SignAllCalls = <<>>
        /\ (sgMode = "signEach" /\ sgPc = "signed") =>
              /\ Len(sgCalls) = Len(sgTxs)
              /\ \A i \in 1..Len(sgTxs) : sgCalls[i].arg = <<sgTxs[i]>>
              /\ Len(sgSigned) = Len(sgTxs)
              /\ \A i \in 1..Len(sgTxs) : sgSigned[i].signed = sgTxs[i]
        /\ (sgMode = "signAll" /\ sgPc = "signed") =>
              /\ Len(sgCalls) = 1
              /\ sgCalls[1].arg = sgTxs

SigningWitness ==
    /\ sgPc = "signed"
    /\ sgMode = "signEach"
    /\ sgTxs = <<"txA", "txB", "txA">>
    /\ Len(sgSigned) = 3

(***************************************************************************)
(* Properties of the pool snapshot effect, checked under SpecSnap.         *)
(***************************************************************************)

\* C14: last request wins.  A fetch started by a run of the effect that is
\* no longer the newest run is superseded; when such a fetch settles, with a
\* snapshot or with an error, poolSnapshot, snapshotError and snapshotLoading
\* keep their values, so a result applied by the newest request is never
\* replaced by an older one, whatever the number of fetches in flight and
\* the order in which they settle.
SupersededResultDropped ==
    [][\A f \in fetches :
          (f.gen # snGen /\ f \notin fetches') =>
              UNCHANGED <<poolSnapshot, snapshotError, snapshotLoading>>]_vars

\* Three runs of the effect; the newest applied its snapshot and an older
\* fetch settled after it and was dropped.
SupersededWitness ==
    /\ snGen = 3
    /\ poolSnapshot.from = 3
    /\ snLast.gen \in {1, 2}
    /\ ~snLast.applied
    /\ fetches = {}

\* C20: snapshotLoading is true only while the fetch of the newest run of
\* the effect, for the address now in the form, is in flight.
LoadingOnlyWhileFetching ==
    snapshotLoading =>
        \E f \in fetches : f.gen = snGen /\ ~f.cancelled /\ f.addr = snAddr

(***************************************************************************)
(* Properties of the form side of the hook, checked under SpecHook.        *)
(***************************************************************************)

\* C16: when a performClmmSwap call fails, the hook shows no swap result:
\* after the rejection lastSwap is null, status is idle and statusMessage is
\* the error; and lastSwap is only ever non-null, and status only ever
\* success, for a call that returned a SwapResult.
SwapFailureLeavesNoResult ==
    [][/\ (hkLast' # hkLast /\ ~hkLast'.ok) =>
             /\ lastSwap' = NoLastSwap
             /\ status' = "idle"
             /\ statusMessage' = hkLast'.error
       /\ lastSwap' # NoLastSwap => lastSwap'.signature \in hkResolved'
       /\ status' = "success" => hkResolved' # {}]_vars

\* C19: at most one performClmmSwap call is in flight for the form.
OneSubmissionInFlight == Cardinality(hkCalls) <= 1

(***************************************************************************)
(* Property of concurrent ensureAtaExists calls, checked under SpecEnsure. *)
(***************************************************************************)

\* C12: single-flight provisioning.  For one owner and one mint at most one
\* creation transaction is pending at any time, whatever the interleaving
\* of the callers.
OnePendingCreationPerMint ==
    \A t1 \in enPending : \A t2 \in enPending : t1.mint = t2.mint => t1 = t2

\* C21: the displayed snapshot belongs to the watched pool: whenever
\* poolSnapshot is not null, its id is the pool address now in the form.
SnapshotBelongsToWatchedPool ==
    poolSnapshot # NoSnapshot => poolSnapshot.id = snAddr

====
